---- MODULE Spec2Model ----
(***************************************************************************)
(* A model of copyem: the file-order scheduler (core.py schedule_files),   *)
(* the split of the discovered files over the parallel lanes and the run   *)
(* of main (__init__.py), the telemetry reactor and the LogManager         *)
(* (logger.py), and the per-lane retry supervisor the specification        *)
(* describes on top of them.                                               *)
(*                                                                         *)
(* Paths are the numbers 1..n: a path is only ever compared for equality,  *)
(* so the n distinct paths of a listing are named by their position in it. *)
(* In the supervisor a path is <<lane, position in the lane's first list>>.*)
(* Times are exact rationals held as integers in units of                  *)
(* 1 / (tx_speed * LatDen) seconds; the rounding of Python's floats is not *)
(* modelled.                                                               *)
(***************************************************************************)
EXTENDS Integers, Sequences, FiniteSets, TLC

\* ---------------------------------------------------------------- bounds
MaxFiles == 3      \* longest listing handed to the scheduler
MaxSize == 2       \* largest file size, in bytes
MaxSpeed == 2      \* largest tx_speed, in bytes per second
MaxBuffer == 2     \* largest buffer size, in bytes
MaxLatNum == 2     \* latency ranges over 0/LatDen .. MaxLatNum/LatDen seconds
LatDen == 2        \* denominator of the latency grid
MaxParallel == 3   \* largest --parallel
MainLanes == 2     \* --parallel in the runs of main
ReactorLanes == 2  \* lanes whose endpoints the reactor watches
MaxWrites == 3     \* writes and closes of the stages on the endpoints, in all
MaxMetric == 1     \* largest number in a status line
NumLanes == 2      \* lanes of the supervisor
MaxLaneFiles == 2  \* longest first list of a supervised lane
MaxRetries == 1    \* max_retries of the supervisor
MaxTotalSize == 3  \* largest total_size of the LogManager, in bytes
MaxElapsed == 2    \* latest clock reading, in seconds after start_time
MaxCalls == 2      \* calls of LogManager methods made by one thread

VARIABLES
  sched,      \* the locals of a call of schedule_files
  plan,       \* the locals of main while it splits and schedules
  pipeline,   \* lane -> the lane's current pipeline attempt
  main,       \* the locals and position of main while it runs the lanes
  reactor,    \* the position of monitor_stderr and the stop event
  endpoints,  \* selector key -> the byte stream behind it
  lm,         \* the LogManager: status text, metrics, ssh messages
  sup,        \* the position of the supervisor's thread of control
  lanes,      \* lane -> the supervisor's Lane record
  hist        \* lane -> what has happened to the lane so far (history)

vars == <<sched, plan, pipeline, main, reactor, endpoints, lm, sup, lanes,
          hist>>

\* the variables a part of the program leaves alone
OffSup == <<sup, lanes, hist>>
OffSched == <<plan, pipeline, main, reactor, endpoints, lm, OffSup>>
OffPlan == <<sched, pipeline, main, reactor, endpoints, lm, OffSup>>
OffMain == <<sched, plan, reactor, endpoints, lm, OffSup>>
OffReactor == <<sched, plan, pipeline, main, OffSup>>
OffLanes == <<sched, plan, main, reactor, endpoints>>

Idle == [pc |-> "idle"]

SchedOff == sched = Idle
PlanOff == plan = Idle
MainOff == pipeline = <<>> /\ main = Idle
ReactorOff == reactor = Idle /\ endpoints = <<>> /\ lm = Idle
SupOff == sup = Idle /\ lanes = <<>> /\ hist = <<>>

\* ------------------------------------------------------------- helpers
Min(a, b) == IF a < b THEN a ELSE b

Range(s) == {s[i] : i \in 1..Len(s)}

\* str.upper() on a unit suffix (logger.py lines 82-84, utils.py line 9)
Upper(unit) ==
  CASE unit = "k" -> "K" [] unit = "m" -> "M" [] unit = "g" -> "G"
    [] OTHER -> unit

Paths(entries) == [i \in 1..Len(entries) |-> entries[i][1]]

RECURSIVE SumSizes(_)
SumSizes(entries) ==
  IF entries = <<>> THEN 0 ELSE Head(entries)[2] + SumSizes(Tail(entries))

\* a sort whose order among equal sizes differs from call to call
SortedBySizeTiesByCall(entries) ==
  LET n == Len(entries)
      before(j, i) == IF sched.call = 2 THEN j > i ELSE j < i
      rank(i) == 1 + Cardinality({j \in 1..n :
                        \/ entries[j][2] < entries[i][2]
                        \/ entries[j][2] = entries[i][2] /\ before(j, i)})
  IN [k \in 1..n |-> entries[CHOOSE i \in 1..n : rank(i) = k]]

\* a sort that puts entries of equal size in reverse input order
SortedBySizeTiesReversed(entries) ==
  LET n == Len(entries)
      rank(i) == 1 + Cardinality({j \in 1..n :
                        \/ entries[j][2] < entries[i][2]
                        \/ entries[j][2] = entries[i][2] /\ j > i})
  IN [k \in 1..n |-> entries[CHOOSE i \in 1..n : rank(i) = k]]

\* list.sort(key=lambda x: x[1]): ascending by size, stable.
SortedBySize(entries) ==
  LET n == Len(entries)
      rank(i) == 1 + Cardinality({j \in 1..n :
                        \/ entries[j][2] < entries[i][2]
                        \/ entries[j][2] = entries[i][2] /\ j < i})
  IN [k \in 1..n |-> entries[CHOOSE i \in 1..n : rank(i) = k]]

\* ------------------------------------------------- core.py schedule_files
\* The locals of one call. Pointers keep Python's 0-based values.
\* latency is latency / den seconds; a time is held in units of
\* 1 / (tx_speed * den) seconds.
SchedStartOn(entries, tx_speed, buffer_size, latency, den) ==
  [pc |-> "start", input |-> entries, file_sizes |-> entries,
   tx_speed |-> tx_speed, buffer_size |-> buffer_size, latency |-> latency,
   den |-> den,
   small_ptr |-> 0, big_ptr |-> 0, buffer_max_delay |-> 0,
   res |-> <<>>, eta |-> 0, buffer_time |-> 0, bigs |-> 0,
   order |-> <<>>]

SchedStart(entries, tx_speed, buffer_size, latency) ==
  SchedStartOn(entries, tx_speed, buffer_size, latency, LatDen)

\* latency in time units
Lat(s) == s.latency * s.tx_speed

\* lines 160-170; buffer_size / tx_speed at line 167 raises
\* ZeroDivisionError when tx_speed is 0
SchedSetup(s) ==
  LET sorted == SortedBySize(s.input)
  IN IF s.tx_speed = 0
     THEN [s EXCEPT !.pc = "raised", !.file_sizes = sorted,
                    !.small_ptr = 0, !.big_ptr = Len(sorted) - 1]
     ELSE [s EXCEPT !.pc = "outer", !.file_sizes = sorted,
                    !.small_ptr = 0, !.big_ptr = Len(sorted) - 1,
                    !.buffer_max_delay = s.buffer_size * s.den,
                    !.res = <<>>, !.eta = 0]

\* an outer loop that takes its file at the small cursor
SchedBigTakesSmallest(s) ==
  LET big == s.file_sizes[s.small_ptr + 1]
      big_time == big[2] * s.den
  IN [s EXCEPT !.pc = "inner", !.res = Append(s.res, big),
               !.small_ptr = s.small_ptr + 1,
               !.eta = s.eta + big_time + s.latency * s.tx_speed,
               !.bigs = s.bigs + 1,
               !.buffer_time = Min(big_time, s.buffer_max_delay)]

\* lines 172-180: one pass of the outer loop up to the inner loop
SchedBig(s) ==
  LET big == s.file_sizes[s.big_ptr + 1]
      big_time == big[2] * s.den
  IN [s EXCEPT !.pc = "inner", !.res = Append(s.res, big),
               !.big_ptr = s.big_ptr - 1,
               !.eta = s.eta + big_time + Lat(s),
               !.bigs = s.bigs + 1,
               !.buffer_time = Min(big_time, s.buffer_max_delay)]

\* an inner loop that charges the latency to the ETA as the outer one does
SchedSmallChargesLatency(s) ==
  LET small == s.file_sizes[s.small_ptr + 1]
      small_time == small[2] * s.den
  IN [s EXCEPT !.res = Append(s.res, small),
               !.small_ptr = s.small_ptr + 1,
               !.eta = s.eta + small_time + s.latency * s.tx_speed,
               !.buffer_time = Min(s.buffer_time + small_time
                                     - s.latency * s.tx_speed,
                                   s.buffer_max_delay)]

\* an inner loop without the min() of line 190
SchedSmallUnclamped(s) ==
  LET small == s.file_sizes[s.small_ptr + 1]
      small_time == small[2] * s.den
  IN [s EXCEPT !.res = Append(s.res, small),
               !.small_ptr = s.small_ptr + 1,
               !.eta = s.eta + small_time,
               !.buffer_time = s.buffer_time + small_time
                                 - s.latency * s.tx_speed]

\* lines 184-190: one pass of the inner loop
SchedSmall(s) ==
  LET small == s.file_sizes[s.small_ptr + 1]
      small_time == small[2] * s.den
  IN [s EXCEPT !.res = Append(s.res, small),
               !.small_ptr = s.small_ptr + 1,
               !.eta = s.eta + small_time,
               !.buffer_time = Min(s.buffer_time + small_time - Lat(s),
                                   s.buffer_max_delay)]

InnerCond(s) == s.small_ptr <= s.big_ptr /\ s.buffer_time > Lat(s)

\* lines 192-195: total_size / eta raises ZeroDivisionError when eta is 0.0
SchedFinish(s) ==
  IF s.eta = 0
  THEN [s EXCEPT !.pc = "raised"]
  ELSE [s EXCEPT !.pc = "returned", !.order = Paths(s.res)]

SchedStep(s) ==
  CASE s.pc = "start" -> SchedSetup(s)
    [] s.pc = "outer" /\ s.small_ptr <= s.big_ptr -> SchedBig(s)
    [] s.pc = "outer" /\ s.small_ptr > s.big_ptr -> SchedFinish(s)
    [] s.pc = "inner" /\ InnerCond(s) -> SchedSmall(s)
    [] s.pc = "inner" /\ ~InnerCond(s) -> [s EXCEPT !.pc = "outer"]
    [] OTHER -> s

SchedDone(s) == s.pc \in {"returned", "raised"}

RECURSIVE SchedRun(_)
SchedRun(s) == IF SchedDone(s) THEN s ELSE SchedRun(SchedStep(s))

\* the whole call
schedule_files(entries, tx_speed, buffer_size, latency) ==
  SchedRun(SchedStart(entries, tx_speed, buffer_size, latency))

\* ------------------------------------ the scheduler on bounded inputs
Listings ==
  UNION {{[i \in 1..n |-> <<i, sz[i]>>] : sz \in [1..n -> 0..MaxSize]}
         : n \in 0..MaxFiles}

InitSched ==
  /\ sched \in {SchedStart(e, tx, b, l) :
                  e \in Listings, tx \in 1..MaxSpeed, b \in 1..MaxBuffer,
                  l \in 0..MaxLatNum}
  /\ PlanOff /\ MainOff /\ ReactorOff /\ SupOff

Sort ==
  /\ sched.pc = "start"
  /\ sched' = SchedSetup(sched)
  /\ UNCHANGED OffSched

EmitBig ==
  /\ sched.pc = "outer"
  /\ sched.small_ptr <= sched.big_ptr
  /\ sched' = SchedBig(sched)
  /\ UNCHANGED OffSched

EmitSmall ==
  /\ sched.pc = "inner"
  /\ InnerCond(sched)
  /\ sched' = SchedSmall(sched)
  /\ UNCHANGED OffSched

LeaveInner ==
  /\ sched.pc = "inner"
  /\ ~InnerCond(sched)
  /\ sched' = [sched EXCEPT !.pc = "outer"]
  /\ UNCHANGED OffSched

Finish ==
  /\ sched.pc = "outer"
  /\ sched.small_ptr > sched.big_ptr
  /\ sched' = SchedFinish(sched)
  /\ UNCHANGED OffSched

NextSched == Sort \/ EmitBig \/ EmitSmall \/ LeaveInner \/ Finish

SpecSched == InitSched /\ [][NextSched]_vars

\* the listing of sizes 10, 10, 10, 10, 1000 at 100 B/s with a buffer of
\* 50 B and a latency of 0.05 s = 1/20 s, among the listings of five files
\* of 10 or 1000 bytes
ExampleEntries == <<<<1, 10>>, <<2, 10>>, <<3, 10>>, <<4, 10>>, <<5, 1000>>>>

ExampleListings ==
  {[i \in 1..5 |-> <<i, sz[i]>>] : sz \in [1..5 -> {10, 1000}]}

InitSchedExample ==
  /\ sched \in {SchedStartOn(e, 100, 50, 1, 20) : e \in ExampleListings}
  /\ PlanOff /\ MainOff /\ ReactorOff /\ SupOff

SpecSchedExample == InitSchedExample /\ [][NextSched]_vars

\* two calls of schedule_files on the same arguments, one after the other:
\* call counts them, first keeps what the first call gave
Outcome(s) == [pc |-> s.pc, order |-> s.order, eta |-> s.eta]

InitSchedTwice ==
  /\ sched \in {SchedStart(e, tx, b, l) @@ [call |-> 1, first |-> <<>>] :
                  e \in Listings, tx \in 1..MaxSpeed, b \in 1..MaxBuffer,
                  l \in 0..MaxLatNum}
  /\ PlanOff /\ MainOff /\ ReactorOff /\ SupOff

CallAgain ==
  /\ SchedDone(sched)
  /\ sched.call = 1
  /\ sched' = SchedStartOn(sched.input, sched.tx_speed, sched.buffer_size,
                           sched.latency, sched.den)
                @@ [call |-> 2, first |-> Outcome(sched)]
  /\ UNCHANGED OffSched

NextSchedTwice ==
  Sort \/ EmitBig \/ EmitSmall \/ LeaveInner \/ Finish \/ CallAgain

SpecSchedTwice == InitSchedTwice /\ [][NextSchedTwice]_vars

\* ------------------------------------------------ scheduler: claims
IsPermutation(order, entries) ==
  /\ Len(order) = Len(entries)
  /\ \A i \in 1..Len(entries) :
       Cardinality({k \in 1..Len(order) : order[k] = entries[i][1]}) = 1

\* C6: for every non-empty listing and tx_speed > 0, buffer size > 0 and
\* latency >= 0, schedule_files returns an order that is a permutation of
\* the input paths.
C6_OrderIsPermutation ==
  (SchedDone(sched) /\ Len(sched.input) >= 1)
    => (sched.pc = "returned" /\ IsPermutation(sched.order, sched.input))

\* What the code does keep: an order it returns is a permutation.
ReturnedOrderIsPermutation ==
  sched.pc = "returned" => IsPermutation(sched.order, sched.input)

\* C11: called with an empty entry list, schedule_files returns an empty
\* order and an ETA of zero, without raising.
C11_EmptyListReturns ==
  (SchedDone(sched) /\ sched.input = <<>>)
    => (sched.pc = "returned" /\ sched.order = <<>> /\ sched.eta = 0)

\* C12: for every single-entry list, schedule_files returns that one path
\* and ETA = size / tx_speed + latency.
C12_SingleEntry ==
  (SchedDone(sched) /\ Len(sched.input) = 1)
    => /\ sched.pc = "returned"
       /\ sched.order = <<sched.input[1][1]>>
       /\ sched.eta = sched.input[1][2] * sched.den + Lat(sched)

\* What the code does keep: a single entry it returns has that order and ETA.
ReturnedSingleEntry ==
  (sched.pc = "returned" /\ Len(sched.input) = 1)
    => /\ sched.order = <<sched.input[1][1]>>
       /\ sched.eta = sched.input[1][2] * sched.den + Lat(sched)

\* C13: for sizes 10, 10, 10, 10, 1000 at 100 B/s, a buffer of 50 B and a
\* latency of 0.05 s, the biggest file is not the first item of the order.
C13_BigNotFirst ==
  (SchedDone(sched) /\ sched.input = ExampleEntries)
    => (sched.pc = "returned" /\ sched.order[1] # 5)

\* C14: the ETA schedule_files returns is the sum over all files of
\* size / tx_speed plus the latency times the number of files emitted by
\* the big-cursor step.
C14_EtaIsTransmitPlusBigLatency ==
  sched.pc = "returned"
    => sched.eta = SumSizes(sched.input) * sched.den + sched.bigs * Lat(sched)

\* a call that returned after both cursors emitted, with a latency above 0
C14_Witness ==
  /\ sched.pc = "returned"
  /\ sched.latency > 0
  /\ sched.bigs >= 1
  /\ Len(sched.res) > sched.bigs

PosIn(entries, e) == CHOOSE i \in 1..Len(entries) : entries[i] = e

\* C31: the sequence schedule_files works on after its sort holds the
\* entries of the input in ascending size, and entries of equal size in
\* their input order.
C31_SortIsStable ==
  sched.pc \notin {"idle", "start"} =>
    LET fs == sched.file_sizes
    IN /\ Len(fs) = Len(sched.input)
       /\ Range(fs) = Range(sched.input)
       /\ \A k \in 1..Len(fs) : \A m \in (k + 1)..Len(fs) :
            /\ fs[k][2] <= fs[m][2]
            /\ fs[k][2] = fs[m][2]
                 => PosIn(sched.input, fs[k]) < PosIn(sched.input, fs[m])

\* the sort moved a smaller pair of equal-sized entries before a bigger
\* entry of the input
C31_Witness ==
  /\ sched.pc = "outer"
  /\ Len(sched.input) = 3
  /\ sched.input[1][2] > sched.input[2][2]
  /\ sched.input[2][2] = sched.input[3][2]
  /\ sched.file_sizes = <<sched.input[2], sched.input[3], sched.input[1]>>

\* the entries of the input not emitted yet
NotEmitted(s) == Range(s.input) \ Range(s.res)

Emits(s, t) == Len(t.res) = Len(s.res) + 1

\* C32: a step of the outer loop emits a largest file among those not
\* emitted yet, so the first file of the order has maximum size and the
\* files of the big cursor come in non-increasing size; a step of the
\* inner loop emits a smallest file among those not emitted yet, so the
\* files of the small cursor come in non-decreasing size.
C32_BigEmitsLargestSmallEmitsSmallest ==
  [][/\ (sched.pc = "outer" /\ Emits(sched, sched'))
         => \A e \in NotEmitted(sched) :
              e[2] <= sched'.res[Len(sched'.res)][2]
     /\ (sched.pc = "inner" /\ Emits(sched, sched'))
         => \A e \in NotEmitted(sched) :
              e[2] >= sched'.res[Len(sched'.res)][2]]_vars

\* both loops have emitted, and the order starts with the biggest file
C32_Witness ==
  /\ sched.pc = "returned"
  /\ sched.bigs >= 2
  /\ sched.small_ptr >= 1
  /\ sched.res[1][2] > sched.res[2][2]

\* buffer_capacity / tx_speed in the time unit of the call
BufferCap(s) == s.buffer_size * s.den

\* C33: buffer_time never exceeds buffer_capacity / tx_speed, and a small
\* file is emitted only from a state in which buffer_time is above the
\* per-file latency and the small cursor has not crossed the big cursor.
C33_BufferTimeBoundedAndGuardsSmall ==
  [][/\ sched.pc \in {"start", "outer", "inner"}
         => sched'.buffer_time <= BufferCap(sched')
     /\ (sched.pc = "inner" /\ Emits(sched, sched'))
         => /\ sched.buffer_time > sched.latency * sched.tx_speed
            /\ sched.small_ptr <= sched.big_ptr]_vars

\* a small file was emitted at a positive latency and left the buffer
\* time at its cap
C33_Witness ==
  /\ sched.pc = "inner"
  /\ sched.small_ptr >= 1
  /\ sched.latency > 0
  /\ sched.buffer_time = BufferCap(sched)

\* ------------------------- __init__.py main, lines 585-605: the plan
\* lines 591-594: sort by size, then deal the files round-robin
\* (a split that leaves the last file of the sorted listing out)
SplitOverDropsLast(file_sizes, parallel) ==
  LET sorted == SortedBySize(file_sizes)
      n == IF Len(sorted) = 0 THEN 0 ELSE Len(sorted) - 1
      cnt(p) == Cardinality({i \in 1..n : (i - 1) % parallel = p})
  IN [p \in 0..(parallel - 1) |->
        [k \in 1..cnt(p) |-> sorted[(k - 1) * parallel + p + 1]]]

SplitOver(file_sizes, parallel) ==
  LET sorted == SortedBySize(file_sizes)
      n == Len(sorted)
      cnt(p) == Cardinality({i \in 1..n : (i - 1) % parallel = p})
  IN [p \in 0..(parallel - 1) |->
        [k \in 1..cnt(p) |-> sorted[(k - 1) * parallel + p + 1]]]

PlanStart(file_sizes, parallel, tx_speed, buffer_size, latency) ==
  [pc |-> "split", file_sizes |-> file_sizes, parallel |-> parallel,
   speed_bytes |-> tx_speed, buffer_bytes |-> buffer_size,
   latency |-> latency, total_size |-> SumSizes(file_sizes),
   file_parts |-> <<>>, ordered_files |-> <<>>, overall_eta |-> 0, i |-> 0]

InitPlan ==
  /\ plan \in {PlanStart(e, n, tx, b, l) :
                 e \in Listings, n \in 1..MaxParallel, tx \in 1..MaxSpeed,
                 b \in 1..MaxBuffer, l \in 0..MaxLatNum}
  /\ SchedOff /\ MainOff /\ ReactorOff /\ SupOff

\* lines 591-597
Split ==
  /\ plan.pc = "split"
  /\ plan' = [plan EXCEPT !.pc = "schedule",
                          !.file_parts = SplitOver(plan.file_sizes, plan.parallel),
                          !.ordered_files = <<>>, !.overall_eta = 0, !.i = 0]
  /\ UNCHANGED OffPlan

\* lines 598-603: one pass of the loop over the parts
SchedulePart ==
  /\ plan.pc = "schedule"
  /\ plan.i < plan.parallel
  /\ LET r == schedule_files(plan.file_parts[plan.i], plan.speed_bytes,
                             plan.buffer_bytes, plan.latency)
     IN IF r.pc = "raised"
        THEN plan' = [plan EXCEPT !.pc = "crashed"]
        ELSE plan' = [plan EXCEPT
                        !.ordered_files = Append(plan.ordered_files, r.order),
                        !.overall_eta = IF r.eta > plan.overall_eta
                                        THEN r.eta ELSE plan.overall_eta,
                        !.i = plan.i + 1]
  /\ UNCHANGED OffPlan

\* line 605: total_size / overall_eta
EstimateSpeed ==
  /\ plan.pc = "schedule"
  /\ plan.i = plan.parallel
  /\ plan' = [plan EXCEPT !.pc = IF plan.overall_eta = 0
                                 THEN "crashed" ELSE "planned"]
  /\ UNCHANGED OffPlan

NextPlan == Split \/ SchedulePart \/ EstimateSpeed

SpecPlan == InitPlan /\ [][NextPlan]_vars

\* --------------------- __init__.py main, lines 573-577: the arguments
\* A size string is its number part and its unit suffix, as typed.
SizeString(num_str, suffix) == [num_str |-> num_str, suffix |-> suffix]

SizeStrings ==
  {SizeString(n, u) : n \in {"", "0", "1", "-1", "x"}, u \in {"", "B", "k"}}

ValueError == [kind |-> "ValueError"]

\* utils.py lines 11-21, after upper()
Units(unit) ==
  CASE unit = "B" -> 1
    [] unit \in {"K", "KB"} -> 1024
    [] unit \in {"M", "MB"} -> 1024 * 1024
    [] unit \in {"G", "GB"} -> 1024 * 1024 * 1024

\* a value a call returns
Value(v) == [kind |-> "value", value |-> v]

\* float(num_str) on the number parts above
Float(num_str) ==
  CASE num_str = "0" -> Value(0)
    [] num_str = "1" -> Value(1)
    [] num_str = "-1" -> Value(0 - 1)
    [] OTHER -> ValueError

\* utils.py lines 4-48
parse_size_to_bytes(size_str) ==
  LET suffix == Upper(size_str.suffix)
      unit == IF suffix = "" THEN "B" ELSE suffix
      number == IF size_str.num_str = "" THEN Value(1)
                ELSE Float(size_str.num_str)
  IN IF size_str.num_str = "" /\ size_str.suffix = "" THEN ValueError
     ELSE IF number = ValueError THEN ValueError
     ELSE IF number.value < 0 THEN ValueError
     ELSE Value(number.value * Units(unit))

InitConfig ==
  /\ plan \in {[pc |-> "args", speed |-> s, buffer_size |-> b,
                parallel |-> n, latency |-> l, file_sizes |-> e] :
                 s \in SizeStrings, b \in SizeStrings, n \in 1..MaxParallel,
                 l \in 0..MaxLatNum, e \in Listings}
  /\ SchedOff /\ MainOff /\ ReactorOff /\ SupOff

\* lines 573-577, then the listing of lines 582-585: parser.error ends
\* the run when a size string raises ValueError
ParseArgs ==
  /\ plan.pc = "args"
  /\ LET speed_bytes == parse_size_to_bytes(plan.speed)
         buffer_bytes == parse_size_to_bytes(plan.buffer_size)
     IN IF speed_bytes = ValueError \/ buffer_bytes = ValueError
        THEN plan' = [plan EXCEPT !.pc = "usage_error"]
        ELSE plan' = PlanStart(plan.file_sizes, plan.parallel,
                               speed_bytes.value, buffer_bytes.value,
                               plan.latency)
                       @@ [speed |-> plan.speed]
  /\ UNCHANGED OffPlan

NextConfig == ParseArgs \/ Split \/ SchedulePart \/ EstimateSpeed

SpecConfig == InitConfig /\ [][NextConfig]_vars

\* ----------------------------------------------------- plan: claims
\* C25: a transmit speed of zero is rejected before scheduling: no run
\* gets past its arguments with speed_bytes = 0, so schedule_files is
\* never called with tx_speed = 0.
C25_ZeroSpeedRejected ==
  plan.pc \in {"split", "schedule", "planned", "crashed"}
    => plan.speed_bytes # 0

AllPaths(file_sizes) == {file_sizes[i][1] : i \in 1..Len(file_sizes)}

\* each path of the listing is in exactly one of the lists
ExactlyOnce(lists, file_sizes) ==
  /\ \A f \in AllPaths(file_sizes) :
       Cardinality({<<p, k>> \in UNION {{<<q, j>> : j \in 1..Len(lists[q])}
                                         : q \in DOMAIN lists} :
                      lists[p][k] = f}) = 1
  /\ \A p \in DOMAIN lists : Range(lists[p]) \subseteq AllPaths(file_sizes)

PartPaths == [p \in DOMAIN plan.file_parts |-> Paths(plan.file_parts[p])]

\* ordered_files is a Python list: entry p of it is lane p - 1's list
\* C7: when the discovered files are split over N lanes, every path is in
\* exactly one lane's initial list: the parts made by the split, and the
\* ordered lists the lanes are started with, are pairwise disjoint and
\* their union is the discovered listing.
C7_SplitIsPartition ==
  /\ plan.pc \in {"schedule", "planned", "crashed"}
       => ExactlyOnce(PartPaths, plan.file_sizes)
  /\ plan.pc = "planned"
       => /\ Len(plan.ordered_files) = plan.parallel
          /\ ExactlyOnce(plan.ordered_files, plan.file_sizes)

C7_Witness ==
  /\ plan.pc = "planned"
  /\ plan.parallel >= 2
  /\ Len(plan.file_sizes) > plan.parallel

\* ------------------------------------------ core.py transfer_files
\* One pipeline attempt: the three processes, the temp manifest and FIFO,
\* the handles the orchestrating process holds and the two endpoints
\* registered with the selector. pc is the position inside transfer_files.
\* emitted counts the paths the transport has written to its stdout, read
\* the lines of them the reactor has read.
Stages == {"tar", "mbuffer", "ssh"}

Faults == {"none", "manifest", "fifo", "tar", "mbuffer", "ssh"}

NoPipeline == [pc |-> "none"]

TransferStart(filelist, suffix, fault) ==
  [pc |-> "manifest", filelist |-> filelist, suffix |-> suffix,
   fault |-> fault, manifest |-> FALSE, fifo |-> FALSE,
   procs |-> [st \in Stages |-> "none"],
   tar_out |-> "none", mbuffer_out |-> "none",
   pipe |-> "none", ssh_out |-> "none",
   fifo_writer |-> FALSE, reg |-> {}, emitted |-> 0, read |-> 0]

\* a parent that keeps tar's stdout open
CloseTarOutSkipped(p) == [p EXCEPT !.pc = "ssh"]

\* lines 248-250: tar_proc.stdout.close()
CloseTarOut(p) == [p EXCEPT !.pc = "ssh", !.tar_out = "closed"]

\* lines 222-229, 240-261: one statement of transfer_files. A statement
\* that fails raises out of the function and leaves what exists behind.
TransferStep(p) ==
  CASE p.pc = "manifest" ->
         IF p.fault = "manifest" THEN [p EXCEPT !.pc = "raised"]
         ELSE [p EXCEPT !.pc = "fifo", !.manifest = TRUE]
    [] p.pc = "fifo" ->
         IF p.fault = "fifo" THEN [p EXCEPT !.pc = "raised"]
         ELSE [p EXCEPT !.pc = "tar", !.fifo = TRUE]
    [] p.pc = "tar" ->
         IF p.fault = "tar" THEN [p EXCEPT !.pc = "raised"]
         ELSE [p EXCEPT !.pc = "mbuffer", !.procs["tar"] = "running",
                        !.tar_out = "open"]
    [] p.pc = "mbuffer" ->
         IF p.fault = "mbuffer" THEN [p EXCEPT !.pc = "raised"]
         ELSE [p EXCEPT !.pc = "close_tar_out",
                        !.procs["mbuffer"] = "running",
                        !.mbuffer_out = "open"]
    [] p.pc = "close_tar_out" -> CloseTarOut(p)
    [] p.pc = "ssh" ->
         IF p.fault = "ssh" THEN [p EXCEPT !.pc = "raised"]
         ELSE [p EXCEPT !.pc = "close_mbuffer_out",
                        !.procs["ssh"] = "running", !.ssh_out = "open"]
    [] p.pc = "close_mbuffer_out" ->
         [p EXCEPT !.pc = "open_pipe", !.mbuffer_out = "closed"]
    [] p.pc = "open_pipe" /\ p.fifo_writer ->
         [p EXCEPT !.pc = "register_mbuffer", !.pipe = "open"]
    [] p.pc = "register_mbuffer" ->
         [p EXCEPT !.pc = "register_ssh", !.reg = p.reg \cup {"mbuffer"}]
    [] p.pc = "register_ssh" ->
         [p EXCEPT !.pc = "returned", !.reg = p.reg \cup {"ssh"}]
    [] OTHER -> p

\* open(pipe_name, "rb") returns only once a writer has opened the FIFO
TransferCanStep(p) ==
  /\ p.pc \notin {"none", "returned", "raised"}
  /\ p.pc = "open_pipe" => p.fifo_writer

\* what transfer_files returns: processes, file_handles, paths_to_unlink
ReturnedProcesses(p) == <<<<p.suffix, "tar">>, <<p.suffix, "mbuffer">>,
                          <<p.suffix, "ssh">>>>

ReturnedHandles(p) == <<<<p.suffix, "pipe">>>>

ReturnedPaths(p) == <<<<p.suffix, "manifest">>, <<p.suffix, "fifo">>>>

Started(p) == p.pc # "none"

\* ---------------------------------------- the processes of a pipeline
\* mbuffer opens its log (-l pipe_name) for writing
MbufferOpensLog(l) ==
  /\ pipeline[l].pc # "none"
  /\ pipeline[l].procs["mbuffer"] = "running"
  /\ pipeline[l].fifo
  /\ ~pipeline[l].fifo_writer
  /\ pipeline' = [pipeline EXCEPT ![l].fifo_writer = TRUE]

\* a stage exits, with code zero or not
StageExits(l, st, code) ==
  /\ pipeline[l].pc # "none"
  /\ pipeline[l].procs[st] = "running"
  /\ pipeline' = [pipeline EXCEPT ![l].procs[st] = code]

\* --------------------------- __init__.py main, lines 611-669: the run
MainLaneIds == 0..(MainLanes - 1)

MainStart ==
  [pc |-> "start_loop", i |-> 0, w |-> 0, all_processes |-> <<>>,
   all_file_handles |-> <<>>, all_paths_to_unlink |-> <<>>,
   exc |-> "none", stop_event |-> FALSE, observed |-> {},
   logged |-> <<>>]

InitMain ==
  /\ main = MainStart
  /\ pipeline = [l \in MainLaneIds |-> NoPipeline]
  /\ SchedOff /\ PlanOff /\ ReactorOff /\ SupOff

\* lines 626-629: transfer_files is entered for lane i
MainCallTransfer ==
  /\ main.pc = "start_loop"
  /\ main.i < MainLanes
  /\ \E fault \in Faults :
       pipeline' = [pipeline EXCEPT
                      ![main.i] = TransferStart(<<main.i>>, main.i, fault)]
  /\ main' = [main EXCEPT !.pc = "transfer"]
  /\ UNCHANGED OffMain

\* one statement of transfer_files for lane i
MainTransferStep ==
  /\ main.pc = "transfer"
  /\ TransferCanStep(pipeline[main.i])
  /\ pipeline' = [pipeline EXCEPT ![main.i] = TransferStep(pipeline[main.i])]
  /\ UNCHANGED <<main, OffMain>>

\* lines 627-632: transfer_files returned
MainTransferReturned ==
  /\ main.pc = "transfer"
  /\ pipeline[main.i].pc = "returned"
  /\ main' = [main EXCEPT
       !.pc = "start_loop", !.i = main.i + 1,
       !.all_processes = main.all_processes \o ReturnedProcesses(pipeline[main.i]),
       !.all_file_handles = main.all_file_handles \o ReturnedHandles(pipeline[main.i]),
       !.all_paths_to_unlink = main.all_paths_to_unlink \o ReturnedPaths(pipeline[main.i])]
  /\ UNCHANGED <<pipeline, OffMain>>

\* transfer_files raised: the exception leaves the loop for the finally
MainTransferRaised ==
  /\ main.pc = "transfer"
  /\ pipeline[main.i].pc = "raised"
  /\ main' = [main EXCEPT !.pc = "finally", !.exc = "start"]
  /\ UNCHANGED <<pipeline, OffMain>>

\* lines 634-636: every lane is started
MainStartWaiting ==
  /\ main.pc = "start_loop"
  /\ main.i = MainLanes
  /\ main' = [main EXCEPT !.pc = "wait", !.w = 0]
  /\ UNCHANGED <<pipeline, OffMain>>

ProcStatus(pr) == pipeline[pr[1]].procs[pr[2]]

\* lines 636-640: proc.wait() returns for the next process of the list;
\* a non-zero return code is logged
MainWait ==
  /\ main.pc = "wait"
  /\ main.w < Len(main.all_processes)
  /\ ProcStatus(main.all_processes[main.w + 1]) # "running"
  /\ main' = [main EXCEPT
       !.w = main.w + 1,
       !.observed = main.observed \cup {main.all_processes[main.w + 1]},
       !.logged = IF ProcStatus(main.all_processes[main.w + 1]) = "nonzero"
                  THEN Append(@, <<"Process", main.all_processes[main.w + 1],
                                   "exited with code">>)
                  ELSE @]
  /\ UNCHANGED <<pipeline, OffMain>>

\* line 642
MainAllCompleted ==
  /\ main.pc = "wait"
  /\ main.w = Len(main.all_processes)
  /\ main' = [main EXCEPT !.pc = "finally",
                          !.logged = Append(@, <<"All transfers completed">>)]
  /\ UNCHANGED <<pipeline, OffMain>>

\* KeyboardInterrupt inside the try block
MainInterrupted ==
  /\ main.pc \in {"start_loop", "transfer", "wait"}
  /\ main' = [main EXCEPT !.pc = "finally", !.exc = "interrupt"]
  /\ UNCHANGED <<pipeline, OffMain>>

HandleLanes(handles) == {handles[k][1] : k \in 1..Len(handles)}

PathsOf(paths, l, kind) == \E k \in 1..Len(paths) : paths[k] = <<l, kind>>

\* lines 644-669: the finally block
MainFinally ==
  /\ main.pc = "finally"
  /\ main' = [main EXCEPT !.pc = "exited", !.stop_event = TRUE]
  /\ pipeline' =
       [l \in DOMAIN pipeline |->
          IF pipeline[l].pc = "none" THEN pipeline[l]
          ELSE [pipeline[l] EXCEPT
                  !.reg = IF l \in HandleLanes(main.all_file_handles)
                          THEN @ \ {"mbuffer"} ELSE @,
                  !.pipe = IF l \in HandleLanes(main.all_file_handles)
                           THEN "closed" ELSE @,
                  !.manifest = IF PathsOf(main.all_paths_to_unlink, l, "manifest")
                               THEN FALSE ELSE @,
                  !.fifo = IF PathsOf(main.all_paths_to_unlink, l, "fifo")
                           THEN FALSE ELSE @]]
  /\ UNCHANGED OffMain

MainProcesses ==
  \E l \in MainLaneIds :
    \/ MbufferOpensLog(l) /\ UNCHANGED <<main, OffMain>>
    \/ \E st \in Stages, code \in {"zero", "nonzero"} :
         StageExits(l, st, code) /\ UNCHANGED <<main, OffMain>>

NextMain ==
  \/ MainCallTransfer
  \/ MainTransferStep
  \/ MainTransferReturned
  \/ MainTransferRaised
  \/ MainStartWaiting
  \/ MainWait
  \/ MainAllCompleted
  \/ MainInterrupted
  \/ MainFinally
  \/ MainProcesses

SpecMain == InitMain /\ [][NextMain]_vars

\* the main thread is scheduled, and an mbuffer that stays running opens
\* its log; nothing is assumed of when a stage exits or of an interrupt
MainFairness ==
  /\ WF_vars(MainCallTransfer)
  /\ WF_vars(MainTransferStep)
  /\ WF_vars(MainTransferReturned)
  /\ WF_vars(MainTransferRaised)
  /\ WF_vars(MainStartWaiting)
  /\ WF_vars(MainWait)
  /\ WF_vars(MainAllCompleted)
  /\ WF_vars(MainFinally)
  /\ \A l \in MainLaneIds :
       WF_vars(MbufferOpensLog(l) /\ UNCHANGED <<main, OffMain>>)

SpecMainFair == SpecMain /\ MainFairness

\* ------------------------------------------------------ main: claims
\* C36: a call of transfer_files always completes: it returns or raises,
\* also when mbuffer exits before it opens the status FIFO for writing.
C36_StartCompletes == (main.pc = "transfer") ~> (main.pc # "transfer")

NoneRunning(p) == \A st \in Stages : p.procs[st] # "running"

\* an attempt holds nothing any more
Released(p) ==
  /\ NoneRunning(p)
  /\ ~p.manifest
  /\ ~p.fifo
  /\ p.reg = {}
  /\ p.pipe # "open"
  /\ p.ssh_out # "open"

\* C5: the wait loop never blocks on the exit of one lane's process
\* without checking the others: a non-zero exit of a stage of any lane is
\* observed even while the processes of the other lanes are still running.
C5_NoBlockingWait ==
  (/\ main.pc = "wait"
   /\ main.w < Len(main.all_processes)
   /\ ProcStatus(main.all_processes[main.w + 1]) = "running")
  => \A k \in 1..Len(main.all_processes) :
       LET pr == main.all_processes[k]
       IN (pr[1] # main.all_processes[main.w + 1][1]
           /\ ProcStatus(pr) = "nonzero") => pr \in main.observed

\* C8: on every exit path of the run, every pipeline attempt that was
\* started is released: its processes are not running, its manifest and
\* FIFO are removed, and both endpoints are unregistered and closed.
C8_ReleasedOnExit ==
  main.pc = "exited"
    => \A l \in DOMAIN pipeline :
         Started(pipeline[l]) => Released(pipeline[l])

\* C17: when the run ends on an external stop, every process of every lane
\* has been terminated and every resource of every started pipeline has
\* been released.
C17_StopReleasesAll ==
  (main.pc = "exited" /\ main.exc = "interrupt")
    => \A l \in DOMAIN pipeline :
         Started(pipeline[l])
           => (NoneRunning(pipeline[l]) /\ Released(pipeline[l]))

\* C9: a failure to start one lane's pipeline is fatal to that lane only:
\* every other lane is still started and runs to its own terminal state.
C9_StartFailureIsLocal ==
  (main.pc = "exited" /\ main.exc = "start")
    => \A l \in DOMAIN pipeline :
         l # main.i => (pipeline[l].pc = "returned" /\ NoneRunning(pipeline[l]))

\* C29: when transfer_files has returned, the parent holds neither
\* inter-stage pipe open; tar's output is closed after mbuffer is spawned
\* and before ssh is spawned, and mbuffer's output after ssh is spawned.
C29_ParentClosesStagePipes ==
  \A l \in MainLaneIds :
    LET p == pipeline[l]
    IN Started(p) =>
         /\ p.pc = "returned"
              => p.tar_out = "closed" /\ p.mbuffer_out = "closed"
         /\ p.tar_out = "closed" => p.procs["mbuffer"] # "none"
         /\ p.procs["ssh"] # "none" => p.tar_out = "closed"
         /\ p.mbuffer_out = "closed" => p.procs["ssh"] # "none"

\* transfer_files has returned for a lane
C29_Witness ==
  \E l \in MainLaneIds :
    /\ pipeline[l].pc = "returned"
    /\ \A st \in Stages : pipeline[l].procs[st] # "none"
    /\ l \in HandleLanes(main.all_file_handles)

\* C26: a run in which a stage of a lane exited non-zero is never
\* reported as a completed transfer.
C26_FailedRunNotReportedComplete ==
  (\E k \in 1..Len(main.logged) :
     main.logged[k] = <<"All transfers completed">>)
    => \A l \in MainLaneIds :
         Started(pipeline[l])
           => \A st \in Stages : pipeline[l].procs[st] # "nonzero"

\* ------------------------------------------------ logger.py LogManager
\* A selector key's data, "mbuffer-<suffix>" or "ssh-<suffix>", is the pair
\* <<"mbuffer", suffix>> or <<"ssh", suffix>>. A text is a sequence of
\* tokens: "[", a tag, "]" and a line, as f"[{data}] {line}" writes them.
NoMetrics == [kind |-> "none"]

\* A text of the shape of mbuffer's status line,
\*   "in @ N U/s, out @ N U/s, N U total, buffer P% full":
\* each quantity is a number, a unit letter (or none) and then "iB" or,
\* with no infix, "B".
UnitLetters == {"", "k", "K", "m", "M", "g", "G"}

Quantity(num, unit, infix) == [num |-> num, unit |-> unit, infix |-> infix]

StatusText(in, out, total, pct) ==
  [kind |-> "status", in |-> in, out |-> out, total |-> total, pct |-> pct]

\* the status line mbuffer writes, in MiB
StatusLine(v) ==
  StatusText(Quantity(v, "M", TRUE), Quantity(v, "M", TRUE),
             Quantity(v, "M", TRUE), v)

\* line 71: every quantity of the pattern ends in a literal "iB"
PatternMatches(text) ==
  text.kind = "status" /\ text.in.infix /\ text.out.infix /\ text.total.infix

\* a table of decimal units
UnitsGetDecimal(unit) ==
  CASE unit \in {"k", "K"} -> 1000
    [] unit \in {"m", "M"} -> 1000 * 1000
    [] unit \in {"g", "G"} -> 1000 * 1000 * 1000
    [] OTHER -> 1

\* lines 75-80 and 86-88: units.get(unit, 1)
UnitsGet(unit) ==
  CASE unit \in {"k", "K"} -> 1024
    [] unit \in {"m", "M"} -> 1024 * 1024
    [] unit \in {"g", "G"} -> 1024 * 1024 * 1024
    [] OTHER -> 1

\* lines 86-88: float(number) * units.get(unit_upper, 1)
ToBytes(q) == q.num * UnitsGet(Upper(q.unit))

Chatter == [kind |-> "chatter"]

\* a line of the shape of a status line in which a number is "." or
\* "1.2.3": the pattern's [\d.]+ accepts it, float() does not
Malformed == [kind |-> "malformed"]

\* what a call gives when float() raises ValueError
Raised == [kind |-> "raised"]

\* lines 63-99: the metrics of a line the pattern matches, None for a line
\* it does not match; float() at lines 86-88 raises on a malformed number
parse_mbuffer_status(text) ==
  CASE PatternMatches(text) ->
         [kind |-> "metrics", in_rate |-> ToBytes(text.in),
          out_rate |-> ToBytes(text.out),
          total_bytes |-> ToBytes(text.total),
          buffer_pct |-> text.pct]
    [] text.kind = "malformed" -> Raised
    [] OTHER -> NoMetrics

LogManagerInit ==
  [alive |-> TRUE, mbuffer_status |-> <<>>, transfer_metrics |-> <<>>,
   ssh_messages |-> <<>>]

Put(f, k, v) == [x \in DOMAIN f \cup {k} |-> IF x = k THEN v ELSE f[x]]

\* lines 101-115; when the parse raises, the text of line 104 is stored
\* and the exception leaves the method
update_mbuffer_status(m, suffix, text) ==
  LET metrics == parse_mbuffer_status(text)
      withText == [m EXCEPT !.mbuffer_status = Put(@, suffix, text)]
  IN IF metrics = Raised THEN withText
     ELSE IF metrics # NoMetrics
     THEN [withText EXCEPT !.transfer_metrics = Put(@, suffix, metrics)]
     ELSE IF suffix \in DOMAIN m.transfer_metrics
          THEN [withText EXCEPT
                  !.transfer_metrics[suffix].in_rate = 0,
                  !.transfer_metrics[suffix].out_rate = 0,
                  !.transfer_metrics[suffix].buffer_pct = 0]
          ELSE withText

\* f"[{data}] {line_stripped}"
Tagged(data, line) == <<"[", data, "]", line>>

\* lines 117-131 (a list is appended at its front)
add_message_prepends(m, text) ==
  IF Len(text) >= 1 /\ text[1] = "[" /\ \E k \in 1..Len(text) : text[k] = "]"
  THEN LET bracket_end == CHOOSE k \in 1..Len(text) :
                            text[k] = "]" /\ \A j \in 1..(k - 1) : text[j] # "]"
           suffix == IF bracket_end = 3 THEN text[2] ELSE <<"", "">>
           message == IF bracket_end = Len(text) THEN <<>>
                      ELSE text[bracket_end + 1]
       IN IF suffix[1] = "ssh"
          THEN [m EXCEPT !.ssh_messages =
                  Put(@, suffix,
                      IF suffix \in DOMAIN m.ssh_messages
                      THEN <<message>> \o m.ssh_messages[suffix]
                      ELSE <<message>>)]
          ELSE m
  ELSE m

\* lines 117-131: a tagged text with an "ssh-" tag is appended to the
\* list of its tag
add_message(m, text) ==
  IF Len(text) >= 1 /\ text[1] = "[" /\ \E k \in 1..Len(text) : text[k] = "]"
  THEN LET bracket_end == CHOOSE k \in 1..Len(text) :
                            text[k] = "]" /\ \A j \in 1..(k - 1) : text[j] # "]"
           suffix == IF bracket_end = 3 THEN text[2] ELSE <<"", "">>
           message == IF bracket_end = Len(text) THEN <<>>
                      ELSE text[bracket_end + 1]
       IN IF suffix[1] = "ssh"
          THEN [m EXCEPT !.ssh_messages =
                  Put(@, suffix,
                      IF suffix \in DOMAIN m.ssh_messages
                      THEN Append(m.ssh_messages[suffix], message)
                      ELSE <<message>>)]
          ELSE m
  ELSE m

\* lines 240-243 (the messages of every connection, whatever the suffix)
get_ssh_messages_of_all(m, suffix) ==
  LET keys == DOMAIN m.ssh_messages
      RECURSIVE Cat(_)
      Cat(ks) == IF ks = {} THEN <<>>
                 ELSE LET k == CHOOSE x \in ks : TRUE
                      IN m.ssh_messages[k] \o Cat(ks \ {k})
  IN Cat(keys)

\* lines 240-243: self.ssh_messages.get(suffix, []).copy()
get_ssh_messages(m, suffix) ==
  IF suffix \in DOMAIN m.ssh_messages THEN m.ssh_messages[suffix] ELSE <<>>

\* ------------------------------------------- logger.py monitor_stderr
\* The stream behind a key: the complete lines written to it, whether a
\* fragment with no newline follows them, how much of that the reader's
\* buffer has fetched from the descriptor, how many lines readline has
\* returned, and whether the writing end is closed.
EndpointInit ==
  [lines |-> <<>>, partial |-> FALSE, fetched |-> 0, pfetched |-> FALSE,
   consumed |-> 0, eof |-> FALSE]

\* select: the descriptor has unread bytes, or is at end of file
Readable(ep) ==
  \/ Len(ep.lines) > ep.fetched
  \/ ep.partial /\ ~ep.pfetched
  \/ ep.eof

\* line 290, fileobj.readline(): a buffered line if there is one, else
\* read the descriptor until a newline or end of file arrives
Readline(ep) ==
  IF ep.consumed < ep.fetched
  THEN [result |-> "line", line |-> ep.lines[ep.consumed + 1],
        ep |-> [ep EXCEPT !.consumed = ep.consumed + 1]]
  ELSE LET got == [ep EXCEPT !.fetched = Len(ep.lines),
                             !.pfetched = ep.partial]
       IN IF got.fetched > got.consumed
          THEN [result |-> "line", line |-> ep.lines[ep.consumed + 1],
                ep |-> [got EXCEPT !.consumed = ep.consumed + 1]]
          ELSE IF ep.eof
               THEN IF ep.partial
                    THEN [result |-> "line", line |-> [kind |-> "fragment"],
                          ep |-> [got EXCEPT !.partial = FALSE,
                                             !.pfetched = FALSE]]
                    ELSE [result |-> "empty", line |-> <<>>, ep |-> got]
               ELSE [result |-> "block", line |-> <<>>, ep |-> got]

\* lines 306-311: f"Error reading from {data}: {e}"
ErrorText(data) == <<"Error reading from", data>>

\* a routing that ignores the suffix of the key's data
HandleLineToFirstLane(m, data, line) ==
  IF data[1] = "mbuffer" /\ m.alive
  THEN IF parse_mbuffer_status(line) = Raised
       THEN add_message(update_mbuffer_status(m, 0, line),
                        <<"Error reading from", data>>)
       ELSE update_mbuffer_status(m, 0, line)
  ELSE IF m.alive THEN add_message(m, Tagged(<<data[1], 0>>, line)) ELSE m

\* lines 291-311: route one line by the key's data; an exception of the
\* handling is caught and reported as a message
HandleLine(m, data, line) ==
  IF data[1] = "mbuffer" /\ m.alive
  THEN IF parse_mbuffer_status(line) = Raised
       THEN add_message(update_mbuffer_status(m, data[2], line),
                        ErrorText(data))
       ELSE update_mbuffer_status(m, data[2], line)
  ELSE IF m.alive THEN add_message(m, Tagged(data, line)) ELSE m

ReactorLaneIds == 0..(ReactorLanes - 1)

Keys == {"mbuffer", "ssh"} \X ReactorLaneIds

InitReactor ==
  /\ reactor = [pc |-> "loop", stop |-> FALSE, pending |-> {}, cur |-> <<>>]
  /\ endpoints = [e \in Keys |-> EndpointInit]
  /\ lm = LogManagerInit
  /\ SchedOff /\ PlanOff /\ MainOff /\ SupOff

\* lines 284-285: the loop test and select
ReactorSelect ==
  /\ reactor.pc = "loop"
  /\ ~reactor.stop
  /\ LET events == {e \in DOMAIN endpoints : Readable(endpoints[e])}
     IN /\ events # {}
        /\ reactor' = [reactor EXCEPT !.pc = "events", !.pending = events]
  /\ UNCHANGED <<endpoints, lm, OffReactor>>

\* line 284: the stop event is set
ReactorStops ==
  /\ reactor.pc = "loop"
  /\ reactor.stop
  /\ reactor' = [reactor EXCEPT !.pc = "stopped"]
  /\ UNCHANGED <<endpoints, lm, OffReactor>>

AfterKey(e) ==
  [reactor EXCEPT !.pending = reactor.pending \ {e}, !.cur = <<>>,
                  !.pc = IF reactor.pending \ {e} = {} THEN "loop" ELSE "events"]

\* lines 286-305: one key of the events, readline returns
ReactorRead(e) ==
  /\ reactor.pc = "events"
  /\ e \in reactor.pending
  /\ LET r == Readline(endpoints[e])
     IN /\ r.result # "block"
        /\ endpoints' = [endpoints EXCEPT ![e] = r.ep]
        /\ lm' = IF r.result = "line" THEN HandleLine(lm, e, r.line) ELSE lm
  /\ reactor' = AfterKey(e)
  /\ UNCHANGED OffReactor

\* line 290: readline has a fragment only and waits for the rest
ReactorBlocks(e) ==
  /\ reactor.pc = "events"
  /\ e \in reactor.pending
  /\ LET r == Readline(endpoints[e])
     IN /\ r.result = "block"
        /\ endpoints' = [endpoints EXCEPT ![e] = r.ep]
  /\ reactor' = [reactor EXCEPT !.pc = "readline", !.cur = e]
  /\ UNCHANGED <<lm, OffReactor>>

\* line 290: the newline or the end of file arrives, readline returns
ReactorResumes ==
  /\ reactor.pc = "readline"
  /\ LET e == reactor.cur
         r == Readline(endpoints[e])
     IN /\ r.result # "block"
        /\ endpoints' = [endpoints EXCEPT ![e] = r.ep]
        /\ lm' = IF r.result = "line" THEN HandleLine(lm, e, r.line) ELSE lm
        /\ reactor' = AfterKey(e)
  /\ UNCHANGED OffReactor

\* __init__.py line 646: stop_event.set()
SetStop ==
  /\ ~reactor.stop
  /\ reactor' = [reactor EXCEPT !.stop = TRUE]
  /\ UNCHANGED <<endpoints, lm, OffReactor>>

\* __init__.py lines 651-653: log_manager = None
ClearLogManager ==
  /\ reactor.stop
  /\ lm.alive
  /\ lm' = [lm EXCEPT !.alive = FALSE]
  /\ UNCHANGED <<reactor, endpoints, OffReactor>>

\* the writes and closes the stages have made so far
RECURSIVE Written(_)
Written(ks) ==
  IF ks = {} THEN 0
  ELSE LET k == CHOOSE x \in ks : TRUE
       IN Len(endpoints[k].lines) + (IF endpoints[k].partial THEN 1 ELSE 0)
          + (IF endpoints[k].eof THEN 1 ELSE 0) + Written(ks \ {k})

LineOf(e, k) == IF e[1] = "ssh" THEN [kind |-> "path", lane |-> e[2], k |-> k]
                ELSE Chatter

\* a stage writes a whole line, or the rest of the line it began
WritesLine(e) ==
  /\ ~endpoints[e].eof
  /\ endpoints[e].partial \/ Written(Keys) < MaxWrites
  /\ \E line \in IF e[1] = "ssh"
                 THEN {LineOf(e, Len(endpoints[e].lines) + 1)}
                 ELSE {Chatter, Malformed}
                        \cup {StatusLine(v) : v \in 1..MaxMetric} :
       endpoints' = [endpoints EXCEPT
                       ![e].lines = Append(@, line),
                       ![e].partial = FALSE, ![e].pfetched = FALSE]
  /\ UNCHANGED <<reactor, lm, OffReactor>>

\* a stage writes the beginning of a line
WritesFragment(e) ==
  /\ ~endpoints[e].eof
  /\ ~endpoints[e].partial
  /\ Written(Keys) < MaxWrites
  /\ endpoints' = [endpoints EXCEPT ![e].partial = TRUE]
  /\ UNCHANGED <<reactor, lm, OffReactor>>

\* the stage exits: the writing end is closed
ClosesEndpoint(e) ==
  /\ ~endpoints[e].eof
  /\ Written(Keys) < MaxWrites
  /\ endpoints' = [endpoints EXCEPT ![e].eof = TRUE]
  /\ UNCHANGED <<reactor, lm, OffReactor>>

NextReactor ==
  \/ ReactorSelect
  \/ ReactorStops
  \/ \E e \in Keys : ReactorRead(e)
  \/ \E e \in Keys : ReactorBlocks(e)
  \/ ReactorResumes
  \/ SetStop
  \/ ClearLogManager
  \/ \E e \in Keys : WritesLine(e)
  \/ \E e \in Keys : WritesFragment(e)
  \/ \E e \in Keys : ClosesEndpoint(e)

SpecReactor == InitReactor /\ [][NextReactor]_vars

\* the reactor thread is scheduled: a step of its loop that stays
\* possible is taken; nothing is assumed of the writers of the endpoints
ReactorFairness ==
  /\ WF_vars(ReactorSelect)
  /\ WF_vars(ReactorStops)
  /\ WF_vars(ReactorResumes)
  /\ \A e \in Keys : WF_vars(ReactorRead(e)) /\ WF_vars(ReactorBlocks(e))

SpecReactorFair == SpecReactor /\ ReactorFairness

\* ------------------------------ the reactor on one status text
\* The status feed of lane 0 holds one text of the status shape; the
\* reactor reads it and hands it to update_mbuffer_status. A quantity in
\* GiB above 1 is left out: its bytes do not fit the checker's integers.
QuantityTexts ==
  {Quantity(n, u, i) : n \in 0..MaxMetric, u \in UnitLetters, i \in BOOLEAN}
    \ {Quantity(n, u, i) : n \in 2..MaxMetric, u \in {"g", "G"},
                           i \in BOOLEAN}

\* logger.py line 66
ExampleStatus ==
  StatusText(Quantity(14, "M", TRUE), Quantity(24, "M", TRUE),
             Quantity(656, "M", TRUE), 99)

StatusTexts ==
  {StatusText(a, b, c, p) :
     a \in QuantityTexts, b \in QuantityTexts, c \in QuantityTexts,
     p \in 0..MaxMetric} \cup {ExampleStatus}

InitStatus ==
  /\ reactor = [pc |-> "loop", stop |-> FALSE, pending |-> {}, cur |-> <<>>]
  /\ \E text \in StatusTexts :
       endpoints = [e \in Keys |->
                      IF e = <<"mbuffer", 0>>
                      THEN [EndpointInit EXCEPT !.lines = <<text>>]
                      ELSE EndpointInit]
  /\ lm = LogManagerInit
  /\ SchedOff /\ PlanOff /\ MainOff /\ SupOff

NextStatus ==
  \/ ReactorSelect
  \/ \E e \in Keys : ReactorRead(e)

SpecStatus == InitStatus /\ [][NextStatus]_vars

\* --------------------------- logger.py _draw_progress: the stats line
\* utils.py format_time: int(seconds), then the text by magnitude
format_time(num, den) ==
  LET seconds == num \div den
  IN CASE seconds < 60 -> <<seconds, "s">>
       [] seconds >= 60 /\ seconds < 3600 ->
            <<seconds \div 60, "m", seconds % 60, "s">>
       [] seconds >= 3600 /\ seconds < 86400 ->
            <<seconds \div 3600, "h", (seconds % 3600) \div 60, "m",
              seconds % 60, "s">>
       [] OTHER -> <<seconds \div 86400, "d", (seconds % 86400) \div 3600,
                    "h">>

\* lines 188-190: the sum of a metric over the lanes
SumMetric(m, field) ==
  LET RECURSIVE Sum(_)
      Sum(ks) == IF ks = {} THEN 0
                 ELSE LET k == CHOOSE x \in ks : TRUE
                      IN m.transfer_metrics[k][field] + Sum(ks \ {k})
  IN Sum(DOMAIN m.transfer_metrics)

\* lines 185-217: what the stats line shows at clock reading now. The
\* average speed total_transferred / elapsed is kept as a fraction, and
\* the ETA remaining_bytes / avg_speed is remaining * elapsed over
\* total_transferred.
draw_progress(m, now) ==
  LET total_transferred == SumMetric(m, "total_bytes")
      total_out_rate == SumMetric(m, "out_rate")
      elapsed == now - m.start_time
      avg_speed == IF elapsed > 0 THEN <<total_transferred, elapsed>>
                   ELSE <<0, 1>>
      remaining_bytes == IF m.total_size - total_transferred > 0
                         THEN m.total_size - total_transferred ELSE 0
      eta == IF avg_speed[1] > 0
             THEN <<remaining_bytes * avg_speed[2], avg_speed[1]>>
             ELSE <<0, 1>>
  IN [now |-> now, transferred |-> total_transferred,
      curr |-> total_out_rate, avg_speed |-> avg_speed,
      time |-> format_time(elapsed, 1),
      eta |-> format_time(eta[1], eta[2])]

\* lines 101-115 with the redraw of line 115, which a raising parse
\* does not reach
update_and_redraw(m, suffix, text, now) ==
  LET after == update_mbuffer_status(m, suffix, text)
  IN IF parse_mbuffer_status(text) = Raised THEN after
     ELSE [after EXCEPT !.stats = draw_progress(after, now)]

NoStats == [now |-> 0]

\* status lines in bytes
ProgressTexts ==
  {StatusText(Quantity(0, "", TRUE), Quantity(o, "", TRUE),
              Quantity(t, "", TRUE), 0) :
     o \in 0..MaxMetric, t \in 0..MaxMetric} \cup {Chatter}

InitProgress ==
  /\ \E total_size \in 0..MaxTotalSize :
       lm = LogManagerInit @@ [total_size |-> total_size, start_time |-> 0,
                               stats |-> NoStats]
  /\ reactor = Idle /\ endpoints = <<>>
  /\ SchedOff /\ PlanOff /\ MainOff /\ SupOff

\* the reactor hands a status line of a lane to the LogManager
UpdateStatus ==
  /\ \E suffix \in ReactorLaneIds, text \in ProgressTexts,
        now \in 0..MaxElapsed :
       /\ now >= lm.stats.now
       /\ lm' = update_and_redraw(lm, suffix, text, now)
  /\ UNCHANGED <<reactor, endpoints, OffReactor>>

NextProgress == UpdateStatus

SpecProgress == InitProgress /\ [][NextProgress]_vars

\* ------------------------------- logger.py LogManager: the lock
\* The reactor thread (monitor_stderr) and the supervising thread (main,
\* through log) call the methods of the one LogManager. A call is made,
\* enters the method's "with self.lock" block, touches the shared
\* structures and leaves the block.
Threads == {"reactor", "main"}

ThreadOf(t) == IF t = "reactor" THEN reactor ELSE main

Call(method, suffix, text) ==
  [method |-> method, suffix |-> suffix, text |-> text]

\* only the methods that write take the lock
UsesLockWritersOnly(method) ==
  method \in {"update_mbuffer_status", "add_message"}

\* lines 103, 119, 242 and 247: the methods whose body is "with self.lock"
UsesLock(method) ==
  method \in {"update_mbuffer_status", "add_message", "get_ssh_messages",
              "get_all_ssh_messages"}

\* the body of a method: the LogManager after it
Body(m, c) ==
  CASE c.method = "update_mbuffer_status" ->
         update_mbuffer_status(m, c.suffix, c.text)
    [] c.method = "add_message" -> add_message(m, c.text)
    [] OTHER -> m

\* what the method returns
Returned(m, c) ==
  CASE c.method = "get_ssh_messages" -> get_ssh_messages(m, c.suffix)
    [] c.method = "get_all_ssh_messages" -> m.ssh_messages
    [] OTHER -> <<>>

ThreadStart == [pc |-> "idle", call |-> Call("", <<>>, <<>>), calls |-> 0,
                result |-> <<>>]

InitLock ==
  /\ reactor = ThreadStart
  /\ main = ThreadStart
  /\ lm = LogManagerInit @@ [lock |-> "free"]
  /\ pipeline = <<>> /\ endpoints = <<>>
  /\ SchedOff /\ PlanOff /\ SupOff

OffLock == <<sched, plan, pipeline, endpoints, OffSup>>

SetThread(t, v) ==
  IF t = "reactor" THEN reactor' = v /\ UNCHANGED main
  ELSE main' = v /\ UNCHANGED reactor

Begin(t, c) ==
  SetThread(t, [ThreadOf(t) EXCEPT !.pc = "called", !.call = c])

\* a thread calls a method: logger.py lines 299 and 303 for the reactor;
\* log (line 275) and the two readers of the completion logs for the
\* supervising thread
LockCall(t) ==
  /\ ThreadOf(t).pc = "idle"
  /\ ThreadOf(t).calls < MaxCalls
  /\ IF t = "reactor"
     THEN \/ \E l \in ReactorLaneIds, x \in {StatusLine(1), Chatter} :
               Begin(t, Call("update_mbuffer_status", l, x))
          \/ \E l \in ReactorLaneIds :
               Begin(t, Call("add_message", <<"ssh", l>>,
                             Tagged(<<"ssh", l>>, LineOf(<<"ssh", l>>, 1))))
     ELSE \/ Begin(t, Call("add_message", <<>>,
                           <<"Waiting for all transfers">>))
          \/ \E l \in ReactorLaneIds :
               Begin(t, Call("get_ssh_messages", <<"ssh", l>>, <<>>))
          \/ Begin(t, Call("get_all_ssh_messages", <<>>, <<>>))
  /\ UNCHANGED <<lm, OffLock>>

\* the thread enters the body; "with self.lock" waits for the lock
LockEnter(t) ==
  /\ ThreadOf(t).pc = "called"
  /\ IF UsesLock(ThreadOf(t).call.method)
     THEN lm.lock = "free" /\ lm' = [lm EXCEPT !.lock = t]
     ELSE UNCHANGED lm
  /\ SetThread(t, [ThreadOf(t) EXCEPT !.pc = "inside"])
  /\ UNCHANGED OffLock

\* the reads and writes of the body
LockAccess(t) ==
  /\ ThreadOf(t).pc = "inside"
  /\ lm' = Body(lm, ThreadOf(t).call)
  /\ SetThread(t, [ThreadOf(t) EXCEPT
                     !.pc = "accessed",
                     !.result = Returned(lm, ThreadOf(t).call)])
  /\ UNCHANGED OffLock

\* the end of the "with" block and the return
LockLeave(t) ==
  /\ ThreadOf(t).pc = "accessed"
  /\ IF UsesLock(ThreadOf(t).call.method)
     THEN lm' = [lm EXCEPT !.lock = "free"]
     ELSE UNCHANGED lm
  /\ SetThread(t, [ThreadOf(t) EXCEPT !.pc = "idle", !.calls = @ + 1])
  /\ UNCHANGED OffLock

NextLock ==
  \E t \in Threads :
    \/ LockCall(t)
    \/ LockEnter(t)
    \/ LockAccess(t)
    \/ LockLeave(t)

SpecLock == InitLock /\ [][NextLock]_vars

\* a thread is in the part of a method that touches the shared structures
Touching(t) == ThreadOf(t).pc \in {"inside", "accessed"}

\* C30: every read and write of the status texts, the metrics and the
\* completion logs by the reactor thread or the supervising thread is
\* made by the holder of the LogManager lock, so the two threads never
\* touch them at the same time.
C30_AccessHoldsLock ==
  /\ \A t \in Threads : Touching(t) => lm.lock = t
  /\ ~(Touching("reactor") /\ Touching("main"))

\* the supervising thread waits to read the completion logs while the
\* reactor thread has written one inside the lock
C30_Witness ==
  /\ reactor.pc = "accessed"
  /\ reactor.call.method = "add_message"
  /\ lm.lock = "reactor"
  /\ lm.ssh_messages # <<>>
  /\ main.pc = "called"
  /\ main.call.method = "get_all_ssh_messages"

\* --------------------------------------------------- reactor: claims
CompleteLineWaiting(e) == Len(endpoints[e].lines) > endpoints[e].consumed

\* C10: telemetry from one lane never blocks collection from another:
\* while one lane's endpoint has delivered only a partial line, the
\* reactor still reads the complete lines of the other lanes' endpoints.
C10_NoCrossLaneBlocking ==
  reactor.pc = "readline"
    => \A e \in Keys : e[2] # reactor.cur[2] => ~CompleteLineWaiting(e)

\* ----------------------- the retry supervisor (specification, 4.4)
\* The supervisor's source is not part of src/: its lane state machine is
\* taken from section 4.4 of the specification. It starts an attempt with
\* core.py transfer_files and reads an attempt's completion log with
\* LogManager.get_ssh_messages, which the reactor fills through add_message.
LaneIds == 1..NumLanes

\* core.py line 261: the key of a lane's completion log, f"ssh-{suffix}"
SshKey(l) == <<"ssh", l>>

FirstList(l, n) == [k \in 1..n |-> <<l, k>>]

\* the size in bytes of a path: the k-th file of a lane has k bytes
SizeOf(path) == path[2]

RECURSIVE SizeSum(_)
SizeSum(S) ==
  IF S = {} THEN 0
  ELSE LET x == CHOOSE y \in S : TRUE IN SizeOf(x) + SizeSum(S \ {x})

\* what can go wrong inside a call of transfer_files: a statement raises,
\* or mbuffer exits before it has opened the FIFO for writing
StartFaults == Faults \cup {"mbuffer_exits_early"}

\* core.py lines 198-268 run to the end: the call returns, raises, or
\* stays inside open(pipe_name, "rb") for ever
RECURSIVE TransferRun(_)
TransferRun(p) ==
  IF p.pc \in {"returned", "raised", "blocked"} THEN p
  ELSE IF p.pc = "open_pipe" /\ ~p.fifo_writer
       THEN IF p.fault = "mbuffer_exits_early"
            THEN [p EXCEPT !.pc = "blocked", !.procs["mbuffer"] = "nonzero"]
            ELSE TransferRun([p EXCEPT !.fifo_writer = TRUE])
       ELSE TransferRun(TransferStep(p))

transfer_files(filelist, suffix, fault) ==
  TransferRun(TransferStart(filelist, suffix, fault))

LaneStart(list) ==
  [state |-> "Starting", remaining |-> list, completed_bytes |-> 0,
   retry_count |-> 0]

HistStart(list) ==
  [initial |-> list, confirmed |-> {}, attempts |-> 0,
   start_failed |-> FALSE]

InitLanes(lists) ==
  /\ sup = [pc |-> "poll"]
  /\ lanes = [l \in DOMAIN lists |-> LaneStart(lists[l])]
  /\ hist = [l \in DOMAIN lists |-> HistStart(lists[l])]
  /\ pipeline = [l \in DOMAIN lists |-> NoPipeline]
  /\ lm = LogManagerInit
  /\ SchedOff /\ PlanOff
  /\ main = Idle /\ reactor = Idle /\ endpoints = <<>>

Init ==
  \E n \in [LaneIds -> 1..MaxLaneFiles] :
    InitLanes([l \in LaneIds |-> FirstList(l, n[l])])

\* (1) the completion log without its final entry
ConfirmedOf(log) == {log[i] : i \in 1..(Len(log) - 1)}

Without(list, S) == SelectSeq(list, LAMBDA x : x \notin S)

\* (3) terminate the live stage processes of the attempt
Terminate(p) ==
  [p EXCEPT !.procs = [st \in Stages |->
                         IF p.procs[st] = "running" THEN "killed"
                         ELSE p.procs[st]]]

\* a release that leaves the transport endpoint registered and open
ReleasePipelineLeavesSsh(p) ==
  [TransferStart(<<>>, p.suffix, "none") EXCEPT
     !.pc = "released",
     !.procs = [st \in Stages |-> "reaped"],
     !.tar_out = "closed", !.mbuffer_out = "closed",
     !.pipe = "closed", !.ssh_out = p.ssh_out, !.reg = p.reg \ {"mbuffer"}]

\* (4) release all pipeline resources of the attempt: the processes are
\* reaped, the manifest and the FIFO removed, both endpoints unregistered
\* and closed
ReleasePipeline(p) ==
  [TransferStart(<<>>, p.suffix, "none") EXCEPT
     !.pc = "released",
     !.procs = [st \in Stages |-> "reaped"],
     !.tar_out = "closed", !.mbuffer_out = "closed",
     !.pipe = "closed", !.ssh_out = "closed"]

\* a LogManager that keeps the lines of a released attempt
DiscardLogKeeps(m, suffix) == m

\* the completion log of a released attempt goes with the attempt
DiscardLog(m, suffix) ==
  [m EXCEPT !.ssh_messages =
     [k \in DOMAIN m.ssh_messages \ {suffix} |-> m.ssh_messages[k]]]

\* (6) the retry budget
MayRetryOnceMore(lane) ==
  lane.remaining # <<>> /\ lane.retry_count <= MaxRetries

MayRetry(lane) ==
  lane.remaining # <<>> /\ lane.retry_count < MaxRetries

\* Starting -> Running | Failed: one call of transfer_files
SupStart(l, fault) ==
  /\ sup.pc = "poll"
  /\ lanes[l].state = "Starting"
  /\ LET p == transfer_files(lanes[l].remaining, l, fault)
     IN /\ pipeline' = [pipeline EXCEPT ![l] = p]
        /\ hist' = [hist EXCEPT ![l].attempts = @ + 1,
                                ![l].start_failed = (p.pc = "raised")]
        /\ lanes' = [lanes EXCEPT ![l].state =
                       CASE p.pc = "returned" -> "Running"
                         [] p.pc = "raised" -> "Failed"
                         [] OTHER -> "Starting"]
        /\ sup' = IF p.pc = "blocked" THEN [pc |-> "blocked"] ELSE sup
  /\ UNCHANGED <<lm, OffLanes>>

\* the transport stage reports the next file of the manifest as written
TransportWrites(l) ==
  /\ pipeline[l].pc = "returned"
  /\ pipeline[l].procs["ssh"] = "running"
  /\ pipeline[l].emitted < Len(pipeline[l].filelist)
  /\ pipeline' = [pipeline EXCEPT ![l].emitted = @ + 1]
  /\ UNCHANGED <<lm, OffSup, OffLanes>>

\* logger.py lines 285-305: the reactor reads the next line of the lane's
\* registered transport endpoint and records it
ReactorRecords(l) ==
  /\ pipeline[l].pc = "returned"
  /\ "ssh" \in pipeline[l].reg
  /\ pipeline[l].read < pipeline[l].emitted
  /\ lm' = HandleLine(lm, SshKey(l),
                      pipeline[l].filelist[pipeline[l].read + 1])
  /\ pipeline' = [pipeline EXCEPT ![l].read = @ + 1]
  /\ UNCHANGED <<OffSup, OffLanes>>

\* a stage exits zero only once its input has ended and its work is done
ExitAllowed(p, st, code) ==
  code = "zero" =>
    CASE st = "tar" -> TRUE
      [] st = "mbuffer" -> p.procs["tar"] = "zero"
      [] OTHER -> p.procs["mbuffer"] = "zero" /\ p.emitted = Len(p.filelist)

SupStageExits(l, st, code) ==
  /\ pipeline[l].pc = "returned"
  /\ ExitAllowed(pipeline[l], st, code)
  /\ StageExits(l, st, code)
  /\ UNCHANGED <<lm, OffSup, OffLanes>>

\* Running -> Succeeded
SupSucceeds(l) ==
  /\ sup.pc = "poll"
  /\ lanes[l].state = "Running"
  /\ \A st \in Stages : pipeline[l].procs[st] = "zero"
  /\ pipeline' = [pipeline EXCEPT ![l] = ReleasePipeline(pipeline[l])]
  /\ lm' = DiscardLog(lm, SshKey(l))
  /\ lanes' = [lanes EXCEPT
       ![l].state = "Succeeded",
       ![l].remaining = <<>>,
       ![l].completed_bytes = @ + SizeSum(Range(hist[l].initial))]
  /\ hist' = [hist EXCEPT
       ![l].confirmed = @ \cup Range(lanes[l].remaining)]
  /\ UNCHANGED <<sup, OffLanes>>

\* Running -> Retrying -> Starting | Failed: steps (1) to (6)
SupHandlesFailure(l) ==
  /\ sup.pc = "poll"
  /\ lanes[l].state = "Running"
  /\ \E st \in Stages : pipeline[l].procs[st] = "nonzero"
  /\ LET confirmed == ConfirmedOf(get_ssh_messages(lm, SshKey(l)))
         shrunk == [lanes[l] EXCEPT
                      !.remaining = Without(@, confirmed),
                      !.completed_bytes = @ + SizeSum(confirmed)]
     IN /\ pipeline' = [pipeline EXCEPT
                          ![l] = ReleasePipeline(Terminate(pipeline[l]))]
        /\ lm' = DiscardLog(lm, SshKey(l))
        /\ hist' = [hist EXCEPT ![l].confirmed = @ \cup confirmed]
        /\ lanes' = [lanes EXCEPT ![l] =
             IF MayRetry(shrunk)
             THEN [shrunk EXCEPT !.state = "Starting",
                                 !.retry_count = @ + 1]
             ELSE [shrunk EXCEPT !.state = "Failed"]]
  /\ UNCHANGED <<sup, OffLanes>>

Next ==
  \E l \in LaneIds :
    \/ \E fault \in StartFaults : SupStart(l, fault)
    \/ TransportWrites(l)
    \/ ReactorRecords(l)
    \/ \E st \in Stages, code \in {"zero", "nonzero"} :
         SupStageExits(l, st, code)
    \/ SupSucceeds(l)
    \/ SupHandlesFailure(l)

Spec == Init /\ [][Next]_vars

\* the scenario of three lanes with 1, 5 and 1 files: the stages of lanes
\* 1 and 3 only ever exit zero, a stage of lane 2 may exit non-zero
ScenarioLists == <<FirstList(1, 1), FirstList(2, 5), FirstList(3, 1)>>

InitScenario == InitLanes(ScenarioLists)

NextScenario ==
  \E l \in DOMAIN ScenarioLists :
    \/ SupStart(l, "none")
    \/ TransportWrites(l)
    \/ ReactorRecords(l)
    \/ \E st \in Stages : SupStageExits(l, st, "zero")
    \/ \E st \in Stages : l = 2 /\ SupStageExits(l, st, "nonzero")
    \/ SupSucceeds(l)
    \/ SupHandlesFailure(l)

SpecScenario == InitScenario /\ [][NextScenario]_vars

\* what the LogManager holds for one lane
LaneStatus(m, i) ==
  IF i \in DOMAIN m.mbuffer_status THEN <<m.mbuffer_status[i]>> ELSE <<>>

LaneMetrics(m, i) ==
  IF i \in DOMAIN m.transfer_metrics THEN <<m.transfer_metrics[i]>> ELSE <<>>

LaneLog(m, i) == get_ssh_messages(m, <<"ssh", i>>)

\* the step takes a line, or the fragment an ended stream left, from e
TookLine(e) ==
  \/ endpoints'[e].consumed > endpoints[e].consumed
  \/ endpoints[e].eof /\ endpoints[e].partial /\ ~endpoints'[e].partial

\* C34: a line read from the endpoint tagged mbuffer-i changes only the
\* status text and the metrics of lane i, and a line read from the
\* endpoint tagged ssh-i is appended to the completion log of lane i and
\* changes nothing else; what is held for any other lane is unchanged.
C34_RoutingIsLaneLocal ==
  [][\A e \in Keys :
       TookLine(e) =>
         /\ \A i \in ReactorLaneIds \ {e[2]} :
              /\ LaneStatus(lm', i) = LaneStatus(lm, i)
              /\ LaneMetrics(lm', i) = LaneMetrics(lm, i)
              /\ LaneLog(lm', i) = LaneLog(lm, i)
         /\ e[1] = "mbuffer" => LaneLog(lm', e[2]) = LaneLog(lm, e[2])
         /\ e[1] = "ssh" =>
              /\ LaneStatus(lm', e[2]) = LaneStatus(lm, e[2])
              /\ LaneMetrics(lm', e[2]) = LaneMetrics(lm, e[2])
              /\ lm.alive =>
                   /\ Len(LaneLog(lm', e[2])) = Len(LaneLog(lm, e[2])) + 1
                   /\ SubSeq(LaneLog(lm', e[2]), 1, Len(LaneLog(lm, e[2])))
                        = LaneLog(lm, e[2])]_vars

\* lane 1 has a status text and no log, lane 0 a log and no status text
C34_Witness ==
  /\ lm.alive
  /\ LaneStatus(lm, 1) # <<>> /\ LaneLog(lm, 1) = <<>>
  /\ LaneLog(lm, 0) # <<>> /\ LaneStatus(lm, 0) = <<>>

\* C35: once the stop flag is set, the reactor loop exits, whatever the
\* endpoints hold.
C35_StopEndsReactor == reactor.stop ~> reactor.pc = "stopped"

C20_ParseNeverRaises ==
  \A e \in Keys :
    e[1] = "mbuffer" =>
      \A i \in 1..endpoints[e].consumed :
        endpoints[e].lines[i].kind # "status"
          => parse_mbuffer_status(endpoints[e].lines[i]) = NoMetrics

\* the exponent of 1024 a unit letter stands for
UnitExponent(unit) ==
  CASE unit \in {"k", "K"} -> 1
    [] unit \in {"m", "M"} -> 2
    [] unit \in {"g", "G"} -> 3
    [] OTHER -> 0

WellFormed(text) ==
  text.kind = "status" /\ text.in.infix /\ text.out.infix /\ text.total.infix

\* C21: for every well-formed status line handed to the LogManager, each
\* stored value is the line's number times 1024^k, k = 0, 1, 2, 3 for the
\* unit none, K, M, G in either case, and the buffer percentage is the
\* integer of the line.
C21_ValuesAreNumberTimesUnit ==
  \A suffix \in DOMAIN lm.mbuffer_status :
    LET text == lm.mbuffer_status[suffix]
    IN WellFormed(text) =>
         /\ suffix \in DOMAIN lm.transfer_metrics
         /\ LET m == lm.transfer_metrics[suffix]
            IN /\ m.in_rate = text.in.num * 1024 ^ UnitExponent(text.in.unit)
               /\ m.out_rate
                    = text.out.num * 1024 ^ UnitExponent(text.out.unit)
               /\ m.total_bytes
                    = text.total.num * 1024 ^ UnitExponent(text.total.unit)
               /\ m.buffer_pct = text.pct

\* the line of the example is stored as 14, 24 and 656 MiB and 99 percent
C21_Witness ==
  /\ 0 \in DOMAIN lm.transfer_metrics
  /\ lm.mbuffer_status[0] = ExampleStatus
  /\ lm.transfer_metrics[0].in_rate = 14 * 1048576
  /\ lm.transfer_metrics[0].total_bytes = 656 * 1048576
  /\ lm.transfer_metrics[0].buffer_pct = 99

\* the same text with "iB" in every unit
WithInfix(text) ==
  [text EXCEPT !.in.infix = TRUE, !.out.infix = TRUE, !.total.infix = TRUE]

\* C22: a status line that writes its units without the "i" infix is
\* recognized and stored with the values of the same line written with it.
C22_InfixIsOptional ==
  \A suffix \in DOMAIN lm.mbuffer_status :
    LET text == lm.mbuffer_status[suffix]
    IN text.kind = "status" =>
         /\ suffix \in DOMAIN lm.transfer_metrics
         /\ lm.transfer_metrics[suffix]
              = parse_mbuffer_status(WithInfix(text))

\* the lines read from a status feed so far that gave metrics
ParsedSoFar(e) ==
  {i \in 1..endpoints[e].consumed :
     parse_mbuffer_status(endpoints[e].lines[i]).kind = "metrics"}

\* C23: a line that does not parse leaves the lane's stored metrics as
\* they were: while the LogManager is in use, the metrics stored for a
\* lane are those of the last line read from its status feed that parsed.
C23_ParseMissChangesNothing ==
  lm.alive =>
    \A e \in Keys :
      (e[1] = "mbuffer" /\ ParsedSoFar(e) # {}) =>
        LET last == CHOOSE i \in ParsedSoFar(e) :
                      \A j \in ParsedSoFar(e) : j <= i
        IN /\ e[2] \in DOMAIN lm.transfer_metrics
           /\ lm.transfer_metrics[e[2]]
                = parse_mbuffer_status(endpoints[e].lines[last])

Drawn == lm.stats # NoStats

\* C24: the stats line shows the out rates and the bytes summed over
\* the lanes, and when the average speed is zero the ETA it shows is not
\* the text of an ETA of zero seconds.
C24_ZeroSpeedEtaIsUnknown ==
  Drawn =>
    /\ lm.stats.curr = SumMetric(lm, "out_rate")
    /\ lm.stats.transferred = SumMetric(lm, "total_bytes")
    /\ lm.stats.avg_speed[1] = 0 => lm.stats.eta # format_time(0, 1)

\* ------------------------------------------------- supervisor: claims
NoDuplicates(list) ==
  \A i, j \in 1..Len(list) : list[i] = list[j] => i = j

\* the completion log the LogManager holds for a lane
LogOf(m, l) ==
  IF SshKey(l) \in DOMAIN m.ssh_messages THEN m.ssh_messages[SshKey(l)]
  ELSE <<>>

\* the lines the reactor has read from the transport endpoint of the
\* lane's current attempt, in the order the transport wrote them
LinesRead(l) == SubSeq(pipeline[l].filelist, 1, pipeline[l].read)

StageFailed(l) == \E st \in Stages : pipeline[l].procs[st] = "nonzero"

\* C1: for every lane the files confirmed delivered and the remaining list
\* are disjoint, together they are the lane's initial list, and no file is
\* listed twice in remaining.
C1_ConfirmedAndRemainingPartition ==
  \A l \in DOMAIN lanes :
    /\ hist[l].confirmed \cap Range(lanes[l].remaining) = {}
    /\ hist[l].confirmed \cup Range(lanes[l].remaining)
         = Range(hist[l].initial)
    /\ NoDuplicates(lanes[l].remaining)

\* a lane restarted after a failure that confirmed some of its files
C1_Witness ==
  \E l \in DOMAIN lanes :
    /\ lanes[l].state = "Running"
    /\ lanes[l].retry_count >= 1
    /\ hist[l].confirmed # {}
    /\ lanes[l].remaining # <<>>

\* C2: when the failure of an attempt whose completion log is p1..pk is
\* handled, the new remaining list is the old one without p1..p(k-1), the
\* last entry pk stays in it, and the next attempt is started for exactly
\* that list.
C2_LastEntryNotTrusted ==
  [][\A l \in DOMAIN lanes :
       /\ (lanes[l].state = "Running"
           /\ lanes'[l].state \in {"Starting", "Failed"})
          => LET log == LinesRead(l)
                 k == Len(log)
             IN /\ lanes'[l].remaining
                     = Without(lanes[l].remaining,
                               {log[i] : i \in 1..(k - 1)})
                /\ k >= 1 => log[k] \in Range(lanes'[l].remaining)
       /\ (lanes[l].state = "Starting" /\ lanes'[l].state = "Running")
          => pipeline'[l].filelist = lanes[l].remaining]_vars

\* a lane of two files whose attempt failed with the log of both: only
\* the first is excluded from the retry
C2_Witness ==
  \E l \in DOMAIN lanes :
    /\ hist[l].initial = FirstList(l, 2)
    /\ lanes[l].state = "Starting"
    /\ lanes[l].retry_count = 1
    /\ lanes[l].remaining = <<<<l, 2>>>>

C4_ScenarioRetryIsLocal ==
  [][LET OthersUntouched ==
           \A o \in {1, 3} :
             /\ lanes'[o] = lanes[o]
             /\ pipeline'[o] = pipeline[o]
             /\ LogOf(lm', o) = LogOf(lm, o)
             /\ hist'[o] = hist[o]
     IN /\ (/\ lanes[2].state = "Running"
            /\ hist[2].attempts = 1
            /\ StageFailed(2)
            /\ pipeline[2].read = 3
            /\ lanes'[2].state # "Running")
           => /\ lanes'[2].state = "Starting"
              /\ lanes'[2].remaining = SubSeq(ScenarioLists[2], 3, 5)
              /\ OthersUntouched
        /\ (/\ lanes[2].state = "Starting"
            /\ lanes[2].retry_count = 1
            /\ Len(lanes[2].remaining) = 3
            /\ lanes'[2].state = "Running")
           => /\ pipeline'[2].filelist = SubSeq(ScenarioLists[2], 3, 5)
              /\ OthersUntouched]_vars

\* lane 2 runs its retry on three files while lanes 1 and 3 still run
C4_Witness ==
  /\ DOMAIN lanes = 1..3
  /\ lanes[2].state = "Running"
  /\ lanes[2].retry_count = 1
  /\ hist[2].confirmed = {<<2, 1>>, <<2, 2>>}
  /\ Len(pipeline[2].filelist) = 3
  /\ lanes[1].state = "Running"
  /\ lanes[3].state = "Running"

\* C27: a lane's completed_bytes is the sum of the sizes of the files of
\* its initial list that are no longer in remaining, so it never exceeds
\* the lane's total bytes.
C27_CompletedBytesAreConfirmedSizes ==
  \A l \in LaneIds :
    lanes[l].completed_bytes
      = SizeSum(Range(hist[l].initial) \ Range(lanes[l].remaining))

====
